---- MODULE Spec2Model ----
(***************************************************************************)
(* State-machine model of SVGPhysics (src/js/core/SVGPhysics.js), its     *)
(* helpers debounce and deepMerge (src/js/core/utils.js), and the browser *)
(* event sources that drive it (animation frames, window resize, keydown, *)
(* timers, the load event).                                               *)
(*                                                                        *)
(* The libraries the instance calls are modelled by what those calls do:  *)
(* Matter.Runner.run requests an animation frame, stores its handle in    *)
(* runner.frameRequestId and steps the engine from the frame callback,    *)
(* Runner.stop cancels the frame of the stored handle and Runner.start is *)
(* Runner.run; p5 binds its window listeners when it is created, runs     *)
(* setup and the first draw when the document has loaded, redraws from    *)
(* resizeCanvas, and remove() unbinds and cancels only once a canvas      *)
(* exists.                                                                *)
(*                                                                        *)
(* JavaScript values are tagged records [k |-> kind, v |-> payload]: the  *)
(* payload of an "obj"/"arr" value is a function from property names to   *)
(* values, the payload of a primitive is its literal text.                *)
(***************************************************************************)
EXTENDS Integers, Sequences, FiniteSets, TLC

\* ------------------------------------------------------------------ bounds
MaxFrames == 2        \* animation frames delivered in one behaviour
MaxLoops == 2         \* simultaneous Runner loops the model lets resume() build
MaxInputs == 3        \* method calls, resize signals and key presses in one
                      \* behaviour
MaxTime == 300        \* the clock of the timed specification stops here, ms

\* ------------------------------------------------------- JavaScript values
Num(s) == [k |-> "num", v |-> s]
Str(s) == [k |-> "str", v |-> s]
Bool(b) == [k |-> "bool", v |-> IF b THEN "true" ELSE "false"]
Null == [k |-> "null", v |-> ""]
Undef == [k |-> "undef", v |-> ""]
Obj(f) == [k |-> "obj", v |-> f]
Arr(f) == [k |-> "arr", v |-> f]
EmptyObj == Obj(<<>>)

\* !x
Falsy(x) ==
  \/ x.k \in {"null", "undef"}
  \/ x.k = "num" /\ x.v = "0"
  \/ x.k = "bool" /\ x.v = "false"
  \/ x.k = "str" /\ x.v = ""

\* typeof x === "object"
TypeofObject(x) == x.k \in {"obj", "arr", "null"}

\* x instanceof Object
InstanceofObject(x) == x.k \in {"obj", "arr"}

\* x[key]; reading a property a value does not have yields undefined
Prop(x, key) ==
  IF InstanceofObject(x) /\ key \in DOMAIN x.v THEN x.v[key] ELSE Undef

\* the own enumerable properties copied by { ...x }; a number, boolean,
\* null or undefined contributes none
Spread(x) == IF InstanceofObject(x) THEN x.v ELSE <<>>

\* x || {}
OrEmpty(x) == IF Falsy(x) THEN EmptyObj ELSE x

\* src/js/core/SVGPhysics.js:11-31
defaultConfig ==
  Obj([scale |-> Num("1.3"),
       debug |-> Obj([devMode |-> Bool(FALSE),
                      showBoundingBoxes |-> Bool(FALSE)]),
       physics |-> Obj([restitution |-> Num("0.7"),
                        friction |-> Num("0"),
                        vertexLimit |-> Num("14"),
                        simplifyTolerance |-> Num("0.02"),
                        minimumArea |-> Num("5"),
                        positionIterations |-> Num("3"),
                        velocityIterations |-> Num("2")]),
       mouseConstraint |-> Obj([stiffness |-> Num("0.1")]),
       outline |-> Obj([stroke |-> Str("transparent"),
                        strokeWidth |-> Num("0")])])

\* a deepMerge whose nested case keeps only the caller's object (a shallow
\* merge): sibling keys of an overridden nested key are lost
RECURSIVE deepMergeShallow(_, _)
deepMergeShallow(target, source) ==
  IF Falsy(source) \/ ~TypeofObject(source) THEN target
  ELSE LET base == Spread(target)
           keys == DOMAIN source.v
       IN Obj([key \in (DOMAIN base) \cup keys |->
                 IF key \in keys THEN source.v[key] ELSE base[key]])

\* src/js/core/utils.js:22-35
RECURSIVE deepMerge(_, _)
deepMerge(target, source) ==
  IF Falsy(source) \/ ~TypeofObject(source) THEN target
  ELSE LET base == Spread(target)
           keys == DOMAIN source.v
       IN Obj([key \in (DOMAIN base) \cup keys |->
                 IF key \in keys
                 THEN IF InstanceofObject(source.v[key]) /\ source.v[key].k # "arr"
                      THEN deepMerge(OrEmpty(Prop(target, key)), source.v[key])
                      ELSE source.v[key]
                 ELSE base[key]])

\* ----------------------------------------------------- objects by reference
\* The definitions above take a configuration by its value. What two
\* configurations share is a matter of object identity: here objects live
\* in a heap, a sequence of objects, each a function from its keys to
\* primitive values and references to other objects of the heap.
Ref(a) == [k |-> "ref", v |-> a]

\* x[key] in a heap
PropRef(h, x, key) ==
  IF x.k = "ref" /\ key \in DOMAIN h[x.v] THEN h[x.v][key] ELSE Undef

\* obj[key] = val in a heap, obj being the object at address a
SetField(h, a, key, val) ==
  [h EXCEPT ![a] = [x \in (DOMAIN h[a]) \cup {key} |->
                      IF x = key THEN val ELSE h[a][x]]]

\* the value a reference stands for
RECURSIVE ViewOf(_, _)
ViewOf(h, x) ==
  IF x.k = "ref"
  THEN Obj([key \in DOMAIN h[x.v] |-> ViewOf(h, h[x.v][key])])
  ELSE x

\* the module's defaultConfig object
DefaultRef == Ref(1)

\* the heap once the module is loaded and the callers have built their
\* option objects: defaultConfig and its four groups, then { scale: 2 },
\* { debug: { devMode: true } } and { debug: { showBoundingBoxes: true } }
HeapInit ==
  << [scale |-> Prop(defaultConfig, "scale"), debug |-> Ref(2),
      physics |-> Ref(3), mouseConstraint |-> Ref(4), outline |-> Ref(5)],
     Prop(defaultConfig, "debug").v,
     Prop(defaultConfig, "physics").v,
     Prop(defaultConfig, "mouseConstraint").v,
     Prop(defaultConfig, "outline").v,
     [scale |-> Num("2")],
     [debug |-> Ref(8)],
     [devMode |-> Bool(TRUE)],
     [debug |-> Ref(10)],
     [showBoundingBoxes |-> Bool(TRUE)] >>

\* the customConfig arguments of the modelled callers: none, null, a
\* number, and the three option objects; two constructions may be handed
\* the same object
SharedArgs == {Undef, Null, Num("3"), Ref(6), Ref(7), Ref(9)}

RECURSIVE deepMergeRef(_, _, _)
RECURSIVE mergeRefKeys(_, _, _, _, _)

\* src/js/core/utils.js:26-33, the for-in loop over the keys still to
\* visit, writing into the output object at address out; `target[key] ||
\* {}` makes a new empty object when the target has nothing there
mergeRefKeys(h, out, target, source, keys) ==
  IF keys = {} THEN [h |-> h, val |-> Ref(out)]
  ELSE LET key == CHOOSE x \in keys : TRUE
           sv == h[source.v][key]
       IN IF sv.k = "ref"
          THEN LET tv == PropRef(h, target, key)
                   h1 == IF Falsy(tv) THEN Append(h, <<>>) ELSE h
                   t1 == IF Falsy(tv) THEN Ref(Len(h1)) ELSE tv
                   r == deepMergeRef(h1, t1, sv)
               IN mergeRefKeys(SetField(r.h, out, key, r.val), out,
                               target, source, keys \ {key})
          ELSE mergeRefKeys(SetField(h, out, key, sv), out,
                            target, source, keys \ {key})

\* a deepMerge that writes the caller's keys into the target itself
\* instead of a copy of it
deepMergeRefInPlace(h, target, source) ==
  IF Falsy(source) \/ source.k # "ref" THEN [h |-> h, val |-> target]
  ELSE IF target.k = "ref"
       THEN mergeRefKeys(h, target.v, target, source, DOMAIN h[source.v])
       ELSE LET h1 == Append(h, <<>>)
            IN mergeRefKeys(h1, Len(h1), target, source, DOMAIN h[source.v])

\* src/js/core/utils.js:22-35 on references: the target itself when the
\* source is no object, else a new object { ...target } with the source's
\* keys written into it
deepMergeRef(h, target, source) ==
  IF Falsy(source) \/ source.k # "ref" THEN [h |-> h, val |-> target]
  ELSE LET h1 == Append(h, IF target.k = "ref" THEN h[target.v] ELSE <<>>)
       IN mergeRefKeys(h1, Len(h1), target, source, DOMAIN h[source.v])

\* the instances the modelled page builds
Instances == {"a", "b"}

\* ------------------------------------------------------------ environment
\* container content-box sizes (clientWidth, clientHeight); even, so that
\* the halves the code computes (w / 2, h / 2) are exact integers
Sizes == {4, 8}

\* keys the user can press
Keys == {"b", "x"}

\* what the SVG selector resolves to: nothing, an <svg> without <path>
\* children, or an <svg> with three paths
SvgKinds == {"missing", "nopaths", "paths"}

\* the descriptor #initShapeCache pushes for each path of the "paths"
\* document: the hull and centroid Matter computes for it, the Path2D and
\* the fill (the second path has no fill attribute and only two vertices)
PathShapes ==
  << [hull |-> << <<0, 0>>, <<4, 0>>, <<4, 4>>, <<0, 4>> >>,
      centroid |-> <<2, 2>>, path2d |-> "path1", fill |-> "red"],
     [hull |-> << <<6, 0>>, <<8, 0>> >>,
      centroid |-> <<7, 0>>, path2d |-> "path2", fill |-> "#3498db"],
     [hull |-> << <<8, 2>>, <<12, 2>>, <<12, 6>>, <<8, 6>> >>,
      centroid |-> <<10, 4>>, path2d |-> "path3", fill |-> "blue"] >>

\* the customConfig arguments the modelled callers pass to the constructor:
\* none, the debug mode switched on, and a physics group set to null (the
\* mouseConstraint and outline groups, which #setup and #draw read, keep
\* their default objects)
CustomConfigs ==
  { Undef,
    Obj([debug |-> Obj([devMode |-> Bool(TRUE)])]),
    Obj([physics |-> Null]) }

\* -------------------------------------------------------------------- state
VARIABLES
  inst,            \* "none" before new SVGPhysics(...), "failed" when the
                   \* constructor threw, "live" when it returned an instance
  customArg,       \* the customConfig argument the constructor received
  config,          \* this.config
  container,       \* this.container resolved to an element
  svgSel,          \* what this.svgSel resolves to
  shapeCache,      \* this.shapeCache
  bodies,          \* this.bodies: <<[body, x, y, vy, angle, shape]>>
  walls,           \* this.walls: <<[body, x, y]>>
  world,           \* ids of the bodies and constraints in this.engine.world
  nextId,          \* Matter's id counter (Common.nextId)
  engine,          \* "none" | "live": this.engine
  timestamp,       \* engine.timing.timestamp, in steps
  frameRequestId,  \* this.runner.frameRequestId (0: not set)
  raf,             \* callbacks requested for the next animation frame
  p5,              \* the p5 instance this.p5
  keydown,         \* the debug keydown listener is on window
  timeouts,        \* the pending window timeouts, [id, at] each
  debounceT,       \* debounce's variable t: its last timeout handle, 0 unset
  now,             \* the clock, in ms
  signalAt,        \* the time of the last call of the debounced function
  isPaused,        \* app.js: let isPaused
  appListeners,    \* app.js: its keydown and beforeunload listeners are on
  heap,            \* the objects of the page, by address
  cfgOf,           \* this.config of each instance of Instances, as a reference
  listeners,       \* the instances whose keydown listener is on window
  who,             \* the instance that acted last ("": none)
  lastKey,         \* e.key of the last keydown event ("": none yet)
  csize,           \* <<clientWidth, clientHeight>> of the container
  destroys,        \* number of destroy() calls made
  paused,          \* pause() was called and resume() not since
  op,              \* the operation the last step performed
  trace,           \* the instance callbacks the last step executed, in order
  ret,             \* what the last public method call returned
  err,             \* the error the last step raised ("none": none)
  frames,          \* animation frames delivered so far
  inputs           \* method calls, resize signals and key presses so far

vars == <<inst, customArg, config, container, svgSel, shapeCache, bodies, walls,
          world, nextId, engine, timestamp, frameRequestId, raf, p5,
          keydown, timeouts, debounceT, lastKey, csize, destroys, paused, op, trace,
          ret, err, frames, inputs, now, signalAt, isPaused, appListeners,
          heap, cfgOf, listeners, who>>

\* what the instance's own operations never touch
timeVars == <<now, signalAt>>

appVars == <<isPaused, appListeners>>

heapVars == <<heap, cfgOf, listeners, who>>

envVars == <<timeVars, appVars, heapVars>>

\* the fields the methods of the instance read and write, as one record
Cur ==
  [config |-> config, container |-> container, shapeCache |-> shapeCache,
   bodies |-> bodies, walls |-> walls, world |-> world, nextId |-> nextId,
   engine |-> engine, timestamp |-> timestamp,
   frameRequestId |-> frameRequestId, raf |-> raf, p5 |-> p5,
   keydown |-> keydown, timeouts |-> timeouts,
   t |-> debounceT, csize |-> csize,
   trace |-> <<>>, err |-> "none"]

Put(s) ==
  /\ config' = s.config
  /\ container' = s.container
  /\ shapeCache' = s.shapeCache
  /\ bodies' = s.bodies
  /\ walls' = s.walls
  /\ world' = s.world
  /\ nextId' = s.nextId
  /\ engine' = s.engine
  /\ timestamp' = s.timestamp
  /\ frameRequestId' = s.frameRequestId
  /\ raf' = s.raf
  /\ p5' = s.p5
  /\ keydown' = s.keydown
  /\ timeouts' = s.timeouts
  /\ debounceT' = s.t
  /\ csize' = s.csize
  /\ trace' = s.trace
  /\ err' = s.err

NoP5 ==
  [made |-> FALSE, events |-> FALSE, loadListener |-> FALSE,
   curElement |-> FALSE, setupDone |-> FALSE, loop |-> FALSE,
   requestAnimId |-> 0, width |-> 0, height |-> 0]

Init ==
  /\ inst = "none"
  /\ customArg = Undef
  /\ config = Undef
  /\ container = FALSE
  /\ svgSel = "none"
  /\ shapeCache = <<>>
  /\ bodies = <<>>
  /\ walls = <<>>
  /\ world = {}
  /\ nextId = 1
  /\ engine = "none"
  /\ timestamp = 0
  /\ frameRequestId = 0
  /\ raf = <<>>
  /\ p5 = NoP5
  /\ keydown = FALSE
  /\ timeouts = {}
  /\ debounceT = 0
  /\ lastKey = ""
  /\ csize = <<4, 4>>
  /\ destroys = 0
  /\ paused = FALSE
  /\ op = "init"
  /\ trace = <<>>
  /\ ret = "none"
  /\ err = "none"
  /\ frames = 0
  /\ inputs = 0
  /\ now = 0
  /\ signalAt = 0
  /\ isPaused = FALSE
  /\ appListeners = FALSE
  /\ heap = HeapInit
  /\ cfgOf = [i \in Instances |-> Undef]
  /\ listeners = {}
  /\ who = ""

\* --------------------------------------------------------- browser helpers
\* requestAnimationFrame handles are only ever compared for equality, so a
\* new handle is the least number that is neither queued (raf, busy) nor
\* remembered (runner.frameRequestId, p5._requestAnimId)
RafIds == 1..(MaxLoops + 4)

RafId(s, busy) ==
  LET used == {s.raf[i].id : i \in DOMAIN s.raf} \cup busy
                \cup {s.frameRequestId, s.p5.requestAnimId}
  IN CHOOSE n \in RafIds : n \notin used /\ \A m \in 1..(n - 1) : m \in used

\* window.cancelAnimationFrame(id)
CancelRaf(q, id) == SelectSeq(q, LAMBDA e : e.id # id)

\* o[key] = val on an object value
SetKey(o, key, val) ==
  Obj([x \in (DOMAIN o.v) \cup {key} |-> IF x = key THEN val ELSE o.v[x]])

Min(S) == CHOOSE x \in S : \A y \in S : x <= y
Max(S) == CHOOSE x \in S : \A y \in S : x >= y

\* ----------------------------------------------------------------- methods
\* src/js/core/SVGPhysics.js:85-105
initShapeCache(s, svgKind) ==
  IF Len(s.shapeCache) > 0 THEN s
  ELSE IF svgKind = "missing" THEN s
  ELSE [s EXCEPT !.shapeCache =
          @ \o (IF svgKind = "paths" THEN PathShapes ELSE <<>>)]

\* the body of Runner.run's onFrame up to the tick: request the next frame
\* and remember its handle in runner.frameRequestId
RunnerRequest(s, busy) ==
  LET id == RafId(s, busy)
  IN [s EXCEPT !.raf = Append(@, [id |-> id, cb |-> "runner"]),
               !.frameRequestId = id]

\* Matter.Runner.run(runner, engine): onFrame is called at once without a
\* time, so it requests the first frame and does not tick
RunnerRun(s) == RunnerRequest(s, {})

\* src/js/core/SVGPhysics.js:111-120
initMatter(s) == RunnerRun([s EXCEPT !.engine = "live"])

\* Engine.update as seen by the instance: one step advances the timestamp
\* and moves every dynamic body of the world (here: free fall, one unit of
\* velocity per step); bodies removed from the world are left alone
EngineUpdate(s) ==
  [s EXCEPT !.timestamp = @ + 1,
            !.bodies = [i \in DOMAIN @ |->
                          IF @[i].body \in s.world
                          THEN [s.bodies[i] EXCEPT
                                  !.vy = s.bodies[i].vy + 1,
                                  !.y = s.bodies[i].y + s.bodies[i].vy + 1]
                          ELSE s.bodies[i]],
            !.trace = Append(@, "step")]

\* src/js/core/SVGPhysics.js:168-181
setupMouseConstraint(s) ==
  [s EXCEPT !.world = @ \cup {s.nextId}, !.nextId = @ + 1]

\* src/js/core/SVGPhysics.js:220-238
calcCenterOffsets(s) ==
  LET allVerts == UNION {{s.shapeCache[i].hull[j] :
                            j \in DOMAIN s.shapeCache[i].hull} :
                         i \in DOMAIN s.shapeCache}
      xs == {v[1] : v \in allVerts}
      ys == {v[2] : v \in allVerts}
  IN IF allVerts = {}
     THEN [nan |-> TRUE, offsetX |-> 0, offsetY |-> 0]
     ELSE [nan |-> FALSE,
           offsetX |-> (s.p5.width - (Max(xs) - Min(xs))) \div 2 - Min(xs),
           offsetY |-> (s.p5.height - (Max(ys) - Min(ys))) \div 2 - Min(ys)]

\* Bodies.fromVertices returns nothing for a hull that is no polygon
FromVerticesFails(shape) == Len(shape.hull) < 3

\* a #createBodies whose forEach stops at the first descriptor that yields
\* no body
RECURSIVE createBodiesAbort(_, _, _)
createBodiesAbort(s, off, i) ==
  IF i > Len(s.shapeCache) THEN s
  ELSE LET shape == s.shapeCache[i]
       IN IF FromVerticesFails(shape) THEN s
          ELSE createBodiesAbort(
                 [s EXCEPT !.world = @ \cup {s.nextId},
                           !.nextId = @ + 1,
                           !.bodies = Append(@,
                              [body |-> s.nextId,
                               x |-> shape.centroid[1] + off.offsetX,
                               y |-> shape.centroid[2] + off.offsetY,
                               vy |-> 0, angle |-> 0, shape |-> shape])],
                 off, i + 1)

\* src/js/core/SVGPhysics.js:188-212
RECURSIVE createBodiesFrom(_, _, _)
createBodiesFrom(s, off, i) ==
  IF i > Len(s.shapeCache) THEN s
  ELSE LET shape == s.shapeCache[i]
       IN IF FromVerticesFails(shape)
          THEN createBodiesFrom(s, off, i + 1)
          ELSE createBodiesFrom(
                 [s EXCEPT !.world = @ \cup {s.nextId},
                           !.nextId = @ + 1,
                           !.bodies = Append(@,
                              [body |-> s.nextId,
                               x |-> shape.centroid[1] + off.offsetX,
                               y |-> shape.centroid[2] + off.offsetY,
                               vy |-> 0, angle |-> 0, shape |-> shape])],
                 off, i + 1)

\* a #createBodies that first drops the descriptors that yield no body from
\* the shape cache
createBodiesPruning(s) ==
  createBodiesFrom(
    [s EXCEPT !.shapeCache = SelectSeq(@, LAMBDA d : ~FromVerticesFails(d))],
    calcCenterOffsets(s), 1)

\* src/js/core/SVGPhysics.js:188-192
createBodies(s) == createBodiesFrom(s, calcCenterOffsets(s), 1)

\* the positions of the floor, the left and the right wall for a w x h canvas
WallPositions(w, h) ==
  << <<w \div 2, h + 50>>, <<0 - 50, h \div 2>>, <<w + 50, h \div 2>> >>

\* a #createWalls that bounds the canvas only when there are bodies to keep in
createWallsIfBodies(s) ==
  LET pos == WallPositions(s.p5.width, s.p5.height)
  IN IF s.bodies = <<>> THEN s
     ELSE [s EXCEPT !.walls = [i \in 1..3 |->
                                 [body |-> s.nextId + i - 1,
                                  x |-> pos[i][1], y |-> pos[i][2]]],
                    !.world = @ \cup {s.nextId + i - 1 : i \in 1..3},
                    !.nextId = @ + 3]

\* src/js/core/SVGPhysics.js:245-255
createWalls(s) ==
  LET pos == WallPositions(s.p5.width, s.p5.height)
  IN [s EXCEPT !.walls = [i \in 1..3 |->
                            [body |-> s.nextId + i - 1,
                             x |-> pos[i][1], y |-> pos[i][2]]],
               !.world = @ \cup {s.nextId + i - 1 : i \in 1..3},
               !.nextId = @ + 3]

\* src/js/core/SVGPhysics.js:155-161
setup(s) ==
  LET c == [s EXCEPT !.p5.curElement = TRUE,
                     !.p5.width = s.csize[1],
                     !.p5.height = s.csize[2],
                     !.trace = Append(@, "setup")]
  IN createWalls(createBodies(setupMouseConstraint(c)))

\* src/js/core/SVGPhysics.js:262-283
draw(s) == [s EXCEPT !.trace = Append(@, "draw")]

\* p5's redraw(): runs the sketch's draw once setup is done
P5Redraw(s) == IF s.p5.setupDone THEN draw(s) ELSE s

\* p5's _draw, the animation-frame callback: draws when a frame is due at
\* the target frame rate (the trace notes "skip" when it is not) and, while
\* looping, requests the next frame
P5Draw(s, due, busy) ==
  LET d == IF due \/ ~s.p5.loop THEN P5Redraw(s)
           ELSE [s EXCEPT !.trace = Append(@, "skip")]
      id == RafId(d, busy)
  IN IF d.p5.loop
     THEN [d EXCEPT !.raf = Append(@, [id |-> id, cb |-> "draw"]),
                    !.p5.requestAnimId = id]
     ELSE d

\* p5's _start: runs setup, then the first _draw
P5Start(s) ==
  LET a == setup([s EXCEPT !.p5.loadListener = FALSE])
  IN P5Draw([a EXCEPT !.p5.setupDone = TRUE], TRUE, {})

\* src/js/core/SVGPhysics.js:141-148; new p5(sketch) binds its window
\* listeners (resize among them) and starts at once when the document has
\* loaded, on the load event otherwise
initP5(s, ready) ==
  LET made == [s EXCEPT !.p5.made = TRUE, !.p5.events = TRUE,
                        !.p5.loop = TRUE]
  IN IF ready THEN P5Start(made)
     ELSE [made EXCEPT !.p5.loadListener = TRUE]

\* a #setupDebugControls without the devMode guard
setupDebugControlsAlways(s) == [s EXCEPT !.keydown = TRUE]

\* src/js/core/SVGPhysics.js:126-135
setupDebugControls(s) ==
  IF Falsy(Prop(Prop(s.config, "debug"), "devMode")) THEN s
  ELSE [s EXCEPT !.keydown = TRUE]

\* x == null || x === undefined: reading a property of x throws
Nullish(x) == x.k \in {"null", "undef"}

\* src/js/core/SVGPhysics.js:44-45: customConfig defaults to {} when the
\* argument is undefined, and this.config is the merge
mergeConfig(s, arg) ==
  [s EXCEPT !.config = deepMerge(defaultConfig,
                                 IF arg = Undef THEN EmptyObj ELSE arg)]

\* a constructor that validates the container only after the engine and the
\* runner have been set up
constructorLateCheck(s, containerOk, svgKind, arg, ready) ==
  LET c0 == [mergeConfig(s, arg) EXCEPT !.container = containerOk]
      m == initMatter(initShapeCache(c0, svgKind))
      c1 == initP5(m, ready)
  IN IF Nullish(Prop(c0.config, "physics"))
     THEN [c0 EXCEPT !.err = "TypeError"]
     ELSE IF ~containerOk THEN [m EXCEPT !.err = "Error"]
     ELSE IF Nullish(Prop(c1.config, "debug"))
          THEN [c1 EXCEPT !.err = "TypeError"]
     ELSE setupDebugControls(c1)

\* src/js/core/SVGPhysics.js:44-61
constructor(s, containerOk, svgKind, arg, ready) ==
  LET c0 == [mergeConfig(s, arg) EXCEPT !.container = containerOk]
      c1 == initP5(initMatter(initShapeCache(c0, svgKind)), ready)
  IN IF ~containerOk THEN [c0 EXCEPT !.err = "Error"]
     ELSE IF Nullish(Prop(c0.config, "physics"))
          THEN [c0 EXCEPT !.err = "TypeError"]
     ELSE IF Nullish(Prop(c1.config, "debug"))
          THEN [c1 EXCEPT !.err = "TypeError"]
     ELSE setupDebugControls(c1)

\* src/js/core/SVGPhysics.js:129-134, the keydown listener
debugKey(s, key) ==
  IF key = "b"
  THEN [s EXCEPT
          !.config = SetKey(@, "debug",
                       SetKey(Prop(@, "debug"), "showBoundingBoxes",
                         Bool(Falsy(Prop(Prop(@, "debug"),
                                         "showBoundingBoxes"))))),
          !.trace = Append(@, "toggle")]
  ELSE s

\* setTimeout handles are only ever compared for equality, so a new handle
\* is the least number that no pending timeout has
TimeoutId(pending) ==
  CHOOSE i \in 1..(Cardinality(pending) + 1) :
    /\ \A e \in pending : e.id # i
    /\ \A j \in 1..(i - 1) : \E e \in pending : e.id = j

\* the delay this.#initP5 passes to debounce, in ms
DebounceMs == 100

\* a debounced function that sets its new timeout without clearing the old
debounceNoClear(s, time) ==
  LET id == TimeoutId(s.timeouts)
  IN [s EXCEPT !.timeouts = @ \cup {[id |-> id, at |-> time + DebounceMs]},
               !.t = id]

\* src/js/core/utils.js:9-12, the debounced function called at the given
\* time: clearTimeout(t), then t = setTimeout(..., ms)
debounce(s, time) ==
  LET kept == {e \in s.timeouts : e.id # s.t}
      id == TimeoutId(kept)
  IN [s EXCEPT !.timeouts = kept \cup {[id |-> id, at |-> time + DebounceMs]},
               !.t = id]


\* p5's resizeCanvas(w, h): without a renderer it does nothing, with one it
\* resizes the canvas and redraws
P5ResizeCanvas(s, w, h) ==
  IF s.p5.curElement
  THEN P5Redraw([s EXCEPT !.p5.width = w, !.p5.height = h])
  ELSE s

\* Body.setPosition(this.walls[i], {x, y}); a missing wall is a TypeError
SetWall(s, i, x, y) ==
  IF s.err # "none" THEN s
  ELSE IF i \notin DOMAIN s.walls THEN [s EXCEPT !.err = "TypeError"]
  ELSE [s EXCEPT !.walls[i].x = x, !.walls[i].y = y]

\* a #handleResize that rebuilds the walls for the new size instead of
\* moving them
handleResizeRecreate(s) ==
  LET w == s.csize[1]
      h == s.csize[2]
      c == P5ResizeCanvas([s EXCEPT !.trace = Append(@, "handleResize")], w, h)
  IN IF c.walls = <<>> THEN [c EXCEPT !.err = "TypeError"]
     ELSE createWalls([c EXCEPT !.world = @ \ {c.walls[i].body : i \in 1..3}])

\* src/js/core/SVGPhysics.js:308-314
handleResize(s) ==
  LET w == s.csize[1]
      h == s.csize[2]
      c == P5ResizeCanvas([s EXCEPT !.trace = Append(@, "handleResize")], w, h)
  IN SetWall(SetWall(c, 1, w \div 2, h + 50), 3, w + 50, h \div 2)

\* a pause() that also stops the sketch's draw loop
pauseNoLoop(s) ==
  [s EXCEPT !.raf = CancelRaf(CancelRaf(@, s.frameRequestId),
                              s.p5.requestAnimId),
            !.p5.loop = FALSE]

\* src/js/core/SVGPhysics.js:320-323; Runner.stop cancels the frame whose
\* handle is in runner.frameRequestId
pause(s) == [s EXCEPT !.raf = CancelRaf(@, s.frameRequestId)]

\* src/js/core/SVGPhysics.js:329-332; Runner.start is Runner.run
resume(s) == RunnerRun(s)

\* p5's remove(): it takes back the load listener that would start the
\* sketch and, only once a canvas exists, stops the draw loop, cancels the
\* requested frame and unbinds the window listeners
P5Remove(s) ==
  LET c == [s EXCEPT !.p5.loadListener = FALSE]
  IN IF c.p5.curElement
     THEN [c EXCEPT !.p5.loop = FALSE, !.p5.events = FALSE,
                    !.raf = CancelRaf(@, s.p5.requestAnimId)]
     ELSE c

\* a destroy() that drops its p5 reference once the sketch is removed
destroyNulling(s) ==
  IF s.engine = "none" \/ ~s.p5.made THEN [s EXCEPT !.err = "TypeError"]
  ELSE [P5Remove([s EXCEPT !.world = {}]) EXCEPT !.p5.made = FALSE]

\* src/js/core/SVGPhysics.js:338-343
destroy(s) ==
  IF s.engine = "none" \/ ~s.p5.made THEN [s EXCEPT !.err = "TypeError"]
  ELSE P5Remove([s EXCEPT !.world = {}])

\* a pause() without its return statement
ReturnsPauseVoid(method) == IF method = "resume" THEN "this" ELSE "undefined"

\* src/js/core/SVGPhysics.js:322, 331 and 338-343: what each public method
\* returns; destroy has no return statement
Returns(method) == IF method \in {"pause", "resume"} THEN "this" ELSE "undefined"

\* one animation frame: the callbacks requested for it run in request order
RECURSIVE RunFrame(_, _, _)
RunFrame(s, q, due) ==
  IF q = <<>> THEN s
  ELSE LET busy == {q[i].id : i \in DOMAIN q}
           n == IF Head(q).cb = "runner"
                THEN EngineUpdate(RunnerRequest(s, busy))
                ELSE P5Draw(s, due, busy)
       IN RunFrame(n, Tail(q), due)

\* ----------------------------------------------------------------- actions
Destroyed == destroys > 0

Loops == Cardinality({i \in DOMAIN raf : raf[i].cb = "runner"})

Construct ==
  \E containerOk \in BOOLEAN, svgKind \in SvgKinds,
     arg \in CustomConfigs, ready \in BOOLEAN :
    /\ inst = "none"
    /\ LET r == constructor(Cur, containerOk, svgKind, arg, ready)
       IN /\ Put(r)
          /\ inst' = IF r.err = "none" THEN "live" ELSE "failed"
    /\ customArg' = arg
    /\ svgSel' = svgKind
    /\ op' = "constructor"
    /\ UNCHANGED <<envVars, lastKey, destroys, paused, ret, frames, inputs>>

Load ==
  /\ p5.loadListener
  /\ Put(P5Start(Cur))
  /\ op' = "load"
  /\ UNCHANGED <<envVars, lastKey, inst, customArg, svgSel, destroys, paused, ret, frames, inputs>>

Frame ==
  \E due \in BOOLEAN :
    /\ raf # <<>>
    /\ frames < MaxFrames
    /\ Put(RunFrame([Cur EXCEPT !.raf = <<>>], raf, due))
    /\ frames' = frames + 1
    /\ op' = "frame"
    /\ UNCHANGED <<envVars, lastKey, inst, customArg, svgSel, destroys, paused, ret, inputs>>

WindowResize ==
  \E w \in Sizes, h \in Sizes :
    /\ inst # "none"
    /\ inputs < MaxInputs
    /\ LET c == [Cur EXCEPT !.csize = <<w, h>>]
       IN Put(IF p5.events THEN debounce(c, now) ELSE c)
    /\ inputs' = inputs + 1
    /\ op' = "resize"
    /\ UNCHANGED <<envVars, lastKey, inst, customArg, svgSel, destroys, paused, ret, frames>>

TimerFire ==
  \E e \in timeouts :
    /\ Put(handleResize([Cur EXCEPT !.timeouts = @ \ {e}]))
    /\ op' = "timer"
    /\ UNCHANGED <<envVars, lastKey, inst, customArg, svgSel, destroys, paused, ret, frames, inputs>>

KeyDown ==
  \E k \in Keys :
    /\ inst # "none"
    /\ inputs < MaxInputs
    /\ Put(IF keydown THEN debugKey(Cur, k) ELSE Cur)
    /\ lastKey' = k
    /\ inputs' = inputs + 1
    /\ op' = "key"
    /\ UNCHANGED <<envVars, inst, customArg, svgSel, destroys, paused, ret, frames>>

Pause ==
  /\ inst = "live"
  /\ inputs < MaxInputs
  /\ Put(pause(Cur))
  /\ paused' = TRUE
  /\ ret' = Returns("pause")
  /\ inputs' = inputs + 1
  /\ op' = "pause"
  /\ UNCHANGED <<envVars, lastKey, inst, customArg, svgSel, destroys, frames>>

Resume ==
  /\ inst = "live"
  /\ inputs < MaxInputs
  /\ Loops < MaxLoops
  /\ Put(resume(Cur))
  /\ paused' = FALSE
  /\ ret' = Returns("resume")
  /\ inputs' = inputs + 1
  /\ op' = "resume"
  /\ UNCHANGED <<envVars, lastKey, inst, customArg, svgSel, destroys, frames>>

Destroy ==
  /\ inst = "live"
  /\ inputs < MaxInputs
  /\ Put(destroy(Cur))
  /\ destroys' = destroys + 1
  /\ ret' = Returns("destroy")
  /\ inputs' = inputs + 1
  /\ op' = "destroy"
  /\ UNCHANGED <<envVars, lastKey, inst, customArg, svgSel, paused, frames>>

Next ==
  \/ Construct
  \/ Load
  \/ Frame
  \/ WindowResize
  \/ TimerFire
  \/ KeyDown
  \/ Pause
  \/ Resume
  \/ Destroy

Spec == Init /\ [][Next]_vars

\* ------------------------------------------------- the debounce in time
\* Spec leaves time out: there a pending timeout may expire at any step.
\* SpecDebounce adds the clock to a constructed instance: time passes in
\* steps of Elapses ms, a resize event calls the debounced #handleResize at
\* the current time, and a timeout expires only once its delay has passed.
Elapses == {40, 60}

\* the instance fields before the constructor has run
Unbuilt ==
  [config |-> Undef, container |-> FALSE, shapeCache |-> <<>>,
   bodies |-> <<>>, walls |-> <<>>, world |-> {}, nextId |-> 1,
   engine |-> "none", timestamp |-> 0, frameRequestId |-> 0, raf |-> <<>>,
   p5 |-> NoP5, keydown |-> FALSE, timeouts |-> {}, t |-> 0,
   csize |-> <<4, 4>>, trace |-> <<>>, err |-> "none"]

\* new SVGPhysics(container, svg) on a loaded page
InitDebounce ==
  LET s == constructor(Unbuilt, TRUE, "paths", Undef, TRUE)
  IN /\ inst = "live"
     /\ customArg = Undef
     /\ svgSel = "paths"
     /\ config = s.config
     /\ container = s.container
     /\ shapeCache = s.shapeCache
     /\ bodies = s.bodies
     /\ walls = s.walls
     /\ world = s.world
     /\ nextId = s.nextId
     /\ engine = s.engine
     /\ timestamp = s.timestamp
     /\ frameRequestId = s.frameRequestId
     /\ raf = s.raf
     /\ p5 = s.p5
     /\ keydown = s.keydown
     /\ timeouts = s.timeouts
     /\ debounceT = s.t
     /\ csize = s.csize
     /\ trace = s.trace
     /\ err = s.err
     /\ lastKey = ""
     /\ destroys = 0
     /\ paused = FALSE
     /\ op = "constructor"
     /\ ret = "none"
     /\ frames = 0
     /\ inputs = 0
     /\ now = 0
     /\ signalAt = 0
     /\ isPaused = FALSE
     /\ appListeners = FALSE
     /\ heap = HeapInit
     /\ cfgOf = [i \in Instances |-> Undef]
     /\ listeners = {}
     /\ who = ""

ResizeSignal ==
  \E w \in Sizes, h \in Sizes :
    /\ inst # "none"
    /\ inputs < MaxInputs
    /\ now + DebounceMs <= MaxTime
    /\ LET c == [Cur EXCEPT !.csize = <<w, h>>]
       IN Put(IF p5.events THEN debounce(c, now) ELSE c)
    /\ signalAt' = IF p5.events THEN now ELSE signalAt
    /\ inputs' = inputs + 1
    /\ op' = "resize"
    /\ UNCHANGED <<now, appVars, heapVars, lastKey, inst, customArg, svgSel, destroys, paused, ret, frames>>

Elapse ==
  \E d \in Elapses :
    /\ inst # "none"
    /\ now < MaxTime
    /\ now' = IF now + d < MaxTime THEN now + d ELSE MaxTime
    /\ Put(Cur)
    /\ op' = "elapse"
    /\ UNCHANGED <<signalAt, appVars, heapVars, lastKey, inst, customArg, svgSel, destroys, paused, ret, frames, inputs>>

TimerExpire ==
  \E e \in timeouts :
    /\ now >= e.at
    /\ Put(handleResize([Cur EXCEPT !.timeouts = @ \ {e}]))
    /\ op' = "timer"
    /\ UNCHANGED <<envVars, lastKey, inst, customArg, svgSel, destroys, paused, ret, frames, inputs>>

NextDebounce ==
  \/ ResizeSignal
  \/ Elapse
  \/ TimerExpire

\* time passes, and the browser runs the callback of an expired timeout
SpecDebounce ==
  /\ InitDebounce
  /\ [][NextDebounce]_vars
  /\ WF_vars(Elapse)
  /\ WF_vars(TimerExpire)

\* ------------------------------------------------------------ the host page
\* src/js/app.js:6-15, the configuration the page passes
AppConfig ==
  Obj([scale |-> Num("0.000725*innerWidth"),
       debug |-> Obj([devMode |-> Bool(TRUE),
                      showBoundingBoxes |-> Bool(FALSE)]),
       physics |-> Obj([restitution |-> Num("0.65"),
                        friction |-> Num("0")])])

\* keys pressed on the page
AppKeys == {"p", "b", "x"}

\* a key handler that forgets to note the pause
appKeydownStale(h, k) ==
  IF k # "p" THEN h
  ELSE IF ~h.isPaused
       THEN [s |-> pause(h.s), isPaused |-> FALSE, call |-> "pause"]
       ELSE [s |-> resume(h.s), isPaused |-> FALSE, call |-> "resume"]

\* src/js/app.js:21-33, the page's keydown listener, on the instance fields
\* and its own isPaused; call is the method it called
appKeydown(h, k) ==
  IF k # "p" THEN h
  ELSE IF ~h.isPaused
       THEN [s |-> pause(h.s), isPaused |-> TRUE, call |-> "pause"]
       ELSE [s |-> resume(h.s), isPaused |-> FALSE, call |-> "resume"]

\* src/js/app.js:3-39, the DOMContentLoaded listener; the document is not
\* complete yet, and a constructor that throws ends the listener before it
\* adds the page's own listeners
AppLoaded ==
  \E containerOk \in BOOLEAN, svgKind \in SvgKinds :
    /\ inst = "none"
    /\ LET r == constructor(Cur, containerOk, svgKind, AppConfig, FALSE)
       IN /\ Put(r)
          /\ inst' = IF r.err = "none" THEN "live" ELSE "failed"
          /\ appListeners' = (r.err = "none")
    /\ isPaused' = FALSE
    /\ customArg' = AppConfig
    /\ svgSel' = svgKind
    /\ op' = "constructor"
    /\ UNCHANGED <<timeVars, heapVars, lastKey, destroys, paused, ret, frames, inputs>>

\* a keydown event on window: the instance's listener, added first, then
\* the page's
AppKeyDown ==
  \E k \in AppKeys :
    /\ inst # "none"
    /\ inputs < MaxInputs
    /\ LET d == IF keydown THEN debugKey(Cur, k) ELSE Cur
           h == [s |-> d, isPaused |-> isPaused, call |-> "none"]
           r == IF appListeners THEN appKeydown(h, k) ELSE h
       IN /\ Put(r.s)
          /\ isPaused' = r.isPaused
          /\ op' = IF r.call = "none" THEN "key" ELSE r.call
          /\ paused' = IF r.call = "none" THEN paused ELSE r.call = "pause"
          /\ ret' = IF r.call = "none" THEN ret ELSE Returns(r.call)
    /\ lastKey' = k
    /\ inputs' = inputs + 1
    /\ UNCHANGED <<timeVars, heapVars, appListeners, inst, customArg, svgSel, destroys, frames>>

\* src/js/app.js:36-38
BeforeUnload ==
  /\ appListeners
  /\ inputs < MaxInputs
  /\ Put(destroy(Cur))
  /\ destroys' = destroys + 1
  /\ ret' = Returns("destroy")
  /\ inputs' = inputs + 1
  /\ op' = "destroy"
  /\ UNCHANGED <<envVars, lastKey, inst, customArg, svgSel, paused, frames>>

NextApp ==
  \/ AppLoaded
  \/ Load
  \/ Frame
  \/ WindowResize
  \/ TimerFire
  \/ AppKeyDown
  \/ BeforeUnload

SpecApp == Init /\ [][NextApp]_vars

\* ------------------------------------------- several instances on one page
\* src/js/core/SVGPhysics.js:44-45 and 60 for one instance of the page:
\* the default parameter customConfig = {} makes a new object when no
\* argument is passed, this.config is the merge, and the debug listener is
\* added when its debug.devMode is truthy
ConstructShared ==
  \E i \in Instances, arg \in SharedArgs :
    /\ cfgOf[i].k = "undef"
    /\ LET h0 == IF arg.k = "undef" THEN Append(heap, <<>>) ELSE heap
           src == IF arg.k = "undef" THEN Ref(Len(h0)) ELSE arg
           r == deepMergeRef(h0, DefaultRef, src)
           devMode == PropRef(r.h, PropRef(r.h, r.val, "debug"), "devMode")
       IN /\ heap' = r.h
          /\ cfgOf' = [cfgOf EXCEPT ![i] = r.val]
          /\ listeners' = IF Falsy(devMode) THEN listeners
                          ELSE listeners \cup {i}
    /\ who' = i
    /\ customArg' = arg
    /\ Put(Cur)
    /\ op' = "constructor"
    /\ UNCHANGED <<timeVars, appVars, lastKey, inst, svgSel, destroys, paused, ret, frames, inputs>>

\* src/js/core/SVGPhysics.js:129-134, the keydown listener of one instance
\* on a 'b' press: this.config.debug.showBoundingBoxes is negated in place
ToggleShared ==
  \E i \in listeners :
    /\ LET d == PropRef(heap, cfgOf[i], "debug")
       IN heap' = SetField(heap, d.v, "showBoundingBoxes",
                    Bool(Falsy(PropRef(heap, d, "showBoundingBoxes"))))
    /\ who' = i
    /\ Put(Cur)
    /\ lastKey' = "b"
    /\ op' = "key"
    /\ UNCHANGED <<timeVars, appVars, cfgOf, listeners, inst, customArg, svgSel, destroys, paused, ret, frames, inputs>>

NextShared ==
  \/ ConstructShared
  \/ ToggleShared

SpecShared == Init /\ [][NextShared]_vars

\* ------------------------------------------------- configuration merging
\* The constructor's first statement (src/js/core/SVGPhysics.js:44-45) on
\* its own, over a larger family of customConfig arguments: each of scale,
\* debug, physics, outline and an unknown key "theme" is left out or given
\* one of a few values, among them null, a number and an array for a group.
Absent == [k |-> "absent", v |-> ""]

MkObj(f) == Obj([key \in {x \in DOMAIN f : f[x] # Absent} |-> f[key]])

ScaleOpts == {Absent, Num("2")}

DebugOpts ==
  {Absent, Null,
   Obj([devMode |-> Bool(TRUE)]),
   Obj([devMode |-> Bool(TRUE), showBoundingBoxes |-> Bool(TRUE)])}

PhysicsOpts ==
  {Absent, Null, Num("5"),
   Obj([restitution |-> Num("0.65"), friction |-> Num("0")]),
   Obj([vertexLimit |-> Num("8"), bounce |-> Num("1")])}

OutlineOpts == {Absent, Arr(<<>>), Obj([stroke |-> Str("black")])}

ThemeOpts == {Absent, Str("dark")}

MergeInputs ==
  {Undef, Null, Num("7")} \cup
  {MkObj([scale |-> sc, debug |-> d, physics |-> ph, outline |-> o,
          theme |-> t]) :
     sc \in ScaleOpts, d \in DebugOpts, ph \in PhysicsOpts,
     o \in OutlineOpts, t \in ThemeOpts}

MergeConfig ==
  \E arg \in MergeInputs :
    /\ inst = "none"
    /\ Put(mergeConfig(Cur, arg))
    /\ customArg' = arg
    /\ op' = "merge"
    /\ UNCHANGED <<envVars, lastKey, inst, svgSel, destroys, paused, ret, frames, inputs>>

NextMerge == MergeConfig

SpecMerge == Init /\ [][NextMerge]_vars

\* the recognized configuration keys, as paths from the root
LeafPaths ==
  { <<"scale">>,
    <<"debug", "devMode">>, <<"debug", "showBoundingBoxes">>,
    <<"physics", "restitution">>, <<"physics", "friction">>,
    <<"physics", "vertexLimit">>, <<"physics", "simplifyTolerance">>,
    <<"physics", "minimumArea">>, <<"physics", "positionIterations">>,
    <<"physics", "velocityIterations">>,
    <<"mouseConstraint", "stiffness">>,
    <<"outline", "stroke">>, <<"outline", "strokeWidth">> }

Has(x, key) == InstanceofObject(x) /\ key \in DOMAIN x.v

\* the caller's options have a value at the path
Supplied(x, path) ==
  /\ Has(x, path[1])
  /\ Len(path) = 2 => Has(x.v[path[1]], path[2])

GetPath(x, path) ==
  IF Len(path) = 1 THEN Prop(x, path[1])
  ELSE Prop(Prop(x, path[1]), path[2])

\* every group the caller supplies is a plain object
GroupsAreObjects(x) ==
  \A p \in LeafPaths :
     (Len(p) = 2 /\ Has(x, p[1])) => x.v[p[1]].k = "obj"

KeyByKey ==
  \A p \in LeafPaths :
     GetPath(config, p) = IF Supplied(customArg, p)
                          THEN GetPath(customArg, p)
                          ELSE GetPath(defaultConfig, p)

\* ------------------------------------------------------------------ claims
Ran(t, names) == \E i \in DOMAIN t : t[i] \in names

WallIds(ws) == {ws[i].body : i \in DOMAIN ws}

\* C1: once destroy() has been called, no later step executes #handleResize,
\* the 'b' toggle or #draw of the instance
C1_NoCallbackAfterDestroy ==
  [][Destroyed => ~Ran(trace', {"handleResize", "toggle", "draw"})]_vars

\* C2: destroy() never raises, whether it is the first or a repeated call,
\* before or after p5's setup, paused or running, and it leaves the
\* instance destroyed
C2_DestroyNeverRaises ==
  op = "destroy" => (err = "none" /\ Destroyed /\ world = {})

\* C2 witness: a second destroy() on a paused instance whose setup has not
\* run yet
C2_Witness ==
  op = "destroy" /\ destroys = 2 /\ paused /\ ~p5.setupDone /\ err = "none"

\* C3 (as stated): pause(), resume() and destroy() each return the instance
C3_AllReturnThis ==
  op \in {"pause", "resume", "destroy"} => ret = "this"

\* C3 (amended): pause() and resume() return the instance; destroy() returns
\* undefined, so it can only end a chain
C3_PauseResumeReturnThis ==
  /\ op \in {"pause", "resume"} => ret = "this"
  /\ op = "destroy" => ret = "undefined"

\* C3 witness: resume() called as the second link of the chain
\* pause().resume() (the one loop is the resumed one) returned the instance
C3_Witness ==
  op = "resume" /\ inputs = 2 /\ Loops = 1 /\ ~paused /\ ret = "this"

\* C4: between pause() and the next resume() no step moves a body or
\* advances the engine
C4_NoStepWhilePaused ==
  [][(paused /\ paused') =>
       /\ timestamp' = timestamp
       /\ \A i \in DOMAIN bodies :
            i \in DOMAIN bodies' /\ bodies'[i] = bodies[i]]_vars

\* C5: at most one stepping loop of the runner is ever requested, whatever
\* pause() and resume() calls were made
C5_AtMostOneLoop == Loops <= 1

\* C6: after #handleResize ran for a container of size (w, h), the floor,
\* the left and the right wall are where #createWalls would put them
C6_WallsAtEdges ==
  (op = "timer" /\ Len(walls) = 3) =>
     \A i \in 1..3 :
        <<walls[i].x, walls[i].y>> = WallPositions(csize[1], csize[2])[i]

\* C7: #handleResize leaves the bodies, the shape cache, the world's
\* membership and the identity and number of the walls as they were; after
\* setup the walls are three
C7_ResizeFrame ==
  [][op' = "timer" =>
       /\ bodies' = bodies
       /\ shapeCache' = shapeCache
       /\ timestamp' = timestamp
       /\ world' = world
       /\ nextId' = nextId
       /\ DOMAIN walls' = DOMAIN walls
       /\ \A i \in DOMAIN walls : walls'[i].body = walls[i].body
       /\ (p5.setupDone => Len(walls') = 3)]_vars

\* C7 witness: a resize to height 8 moved the floor while bodies that have
\* already been stepped exist
C7_Witness ==
  /\ op = "timer" /\ err = "none"
  /\ Len(bodies) > 0 /\ timestamp > 0
  /\ p5.height = 8 /\ walls[1].y = 58

\* C8: when the container selector does not resolve, the constructor throws
\* and no engine, runner loop, p5 instance, keydown listener or shape cache
\* exists, then or later
C8_NoSideEffectOnBadContainer ==
  (inst # "none" /\ ~container) =>
     /\ inst = "failed"
     /\ op = "constructor" => err = "Error"
     /\ engine = "none" /\ raf = <<>> /\ frameRequestId = 0
     /\ p5 = NoP5 /\ ~keydown /\ timeouts = {}
     /\ shapeCache = <<>> /\ bodies = <<>> /\ walls = <<>> /\ world = {}

\* C8 witness: the constructor threw for a missing container although the
\* options asked for the debug listener and the SVG has paths
C8_Witness ==
  /\ inst = "failed" /\ ~container /\ err = "Error" /\ svgSel = "paths"
  /\ Prop(Prop(config, "debug"), "devMode") = Bool(TRUE)

\* C9: with an SVG selector that resolves to nothing or to an SVG without
\* paths, construction and setup raise nothing, the shape cache and the body
\* list stay empty, and setup leaves exactly three walls in the world
C9_EmptySvg ==
  (inst = "live" /\ svgSel \in {"missing", "nopaths"}) =>
     /\ shapeCache = <<>> /\ bodies = <<>>
     /\ op \in {"constructor", "load"} => err = "none"
     /\ Ran(trace, {"setup"}) =>
          /\ Len(walls) = 3
          /\ Cardinality(WallIds(walls)) = 3
          /\ WallIds(walls) \subseteq world
          /\ Cardinality(world) = 4

\* C9 witness: setup ran on the load event for an SVG without paths
C9_Witness ==
  /\ inst = "live" /\ svgSel = "nopaths" /\ op = "load"
  /\ p5.setupDone /\ Len(walls) = 3 /\ bodies = <<>>

\* C10 (as stated): for every recognized key the merged configuration holds
\* the caller's value when the caller supplied that key and the default
\* otherwise
C10_MergeKeyByKey == op = "merge" => (KeyByKey /\ err = "none")

\* C10 (amended): the same, when every group key the caller supplies
\* (debug, physics, mouseConstraint, outline) is a plain object; unknown
\* keys raise nothing
C10_MergeKeyByKeyForObjectGroups ==
  (op = "merge" /\ GroupsAreObjects(customArg)) => (KeyByKey /\ err = "none")

\* C10 witness: physics.restitution and an unknown key are overridden, and
\* the sibling physics.vertexLimit keeps its default
C10_Witness ==
  /\ op = "merge" /\ GroupsAreObjects(customArg)
  /\ Supplied(customArg, <<"physics", "restitution">>)
  /\ ~Supplied(customArg, <<"physics", "vertexLimit">>)
  /\ Has(customArg, "theme")
  /\ GetPath(config, <<"physics", "restitution">>) = Num("0.65")
  /\ GetPath(config, <<"physics", "vertexLimit">>) = Num("14")

\* C11: in an animation frame while the instance runs with its one runner
\* loop, a #draw is preceded in that frame by exactly one engine step
C11_StepBeforeDraw ==
  [][(op' = "frame" /\ ~paused /\ Loops = 1 /\ Ran(trace', {"draw"}))
       => trace' = <<"step", "draw">>]_vars

\* C12: at most one debounce timeout is pending, it is the one set by the
\* last resize signal and due 100 ms after it; #handleResize runs only when
\* 100 ms have passed since the last signal, leaving nothing pending, so it
\* runs once for a burst; and a pending timeout leads to a run
C12_Debounce ==
  /\ [](/\ Cardinality(timeouts) <= 1
        /\ \A e \in timeouts :
             e.id = debounceT /\ e.at = signalAt + DebounceMs)
  /\ [](op = "timer" => /\ Ran(trace, {"handleResize"})
                        /\ now >= signalAt + DebounceMs
                        /\ timeouts = {})
  /\ (timeouts # {}) ~> (op = "timer")

\* C12 witness: three signals 40 ms apart, and the one run of #handleResize
\* that follows them
C12_Witness ==
  /\ op = "timer"
  /\ inputs = 3
  /\ signalAt = 80
  /\ now >= 180
  /\ timeouts = {}

Shapes(bs) == [i \in DOMAIN bs |-> bs[i].shape]

\* C13: once #createBodies has run, the body entries are the descriptors
\* whose construction yielded a body, in the order of the shape cache, each
\* carrying its own descriptor and its own body; before that there are none,
\* and no later operation changes the pairing
C13_BodiesPairing ==
  /\ Len(bodies) <= Len(shapeCache)
  /\ \A i, j \in DOMAIN bodies : bodies[i].body = bodies[j].body => i = j
  /\ IF p5.setupDone
     THEN Shapes(bodies) =
            SelectSeq(shapeCache, LAMBDA d : ~FromVerticesFails(d))
     ELSE bodies = <<>>

\* C13 witness: three descriptors, the second one yielding no body, two
\* entries left after a physics step and a resize
C13_Witness ==
  /\ op = "timer"
  /\ p5.setupDone
  /\ timestamp > 0
  /\ Len(shapeCache) = 3
  /\ Len(bodies) = 2
  /\ FromVerticesFails(shapeCache[2])
  /\ bodies[2].shape = shapeCache[3]

\* C14: after destroy() the world is empty and no later step advances the
\* engine
C14_DestroyStopsPhysics ==
  [][Destroyed' => /\ world' = {}
                   /\ Destroyed => (~Ran(trace', {"step"})
                                    /\ timestamp' = timestamp)]_vars

DrawRequests(q) == {i \in DOMAIN q : q[i].cb = "draw"}

\* C15: pause() and resume() leave the sketch and its requested draw
\* callback untouched, and in an animation frame of a paused, set-up and
\* not destroyed instance p5's frame callback runs #draw unless p5 skips
\* the frame for its frame rate, with every body entry kept
C15_DrawNotGatedByPause ==
  [][/\ op' \in {"pause", "resume"}
          => /\ p5' = p5
             /\ Cardinality(DrawRequests(raf')) = Cardinality(DrawRequests(raf))
             /\ \A i \in DrawRequests(raf) :
                  \E j \in DrawRequests(raf') : raf'[j] = raf[i]
     /\ (op' = "frame" /\ paused /\ p5.setupDone /\ ~Destroyed)
          => /\ Ran(trace', {"draw", "skip"})
             /\ ~Ran(trace', {"skip"}) => Ran(trace', {"draw"})
             /\ Shapes(bodies') = Shapes(bodies)
             /\ DrawRequests(raf') # {}]_vars

\* C15 witness: a frame of a paused instance in which #draw ran and the
\* engine did not step, after an earlier step moved the bodies
C15_Witness ==
  /\ op = "frame"
  /\ paused
  /\ ~Destroyed
  /\ Loops = 0
  /\ trace = <<"draw">>
  /\ timestamp > 0
  /\ bodies # <<>>

ShowBoundingBoxes(c) == Prop(Prop(c, "debug"), "showBoundingBoxes")

DevMode(c) == ~Falsy(Prop(Prop(c, "debug"), "devMode"))

\* C16: on a constructed instance debug.devMode never changes, and
\* debug.showBoundingBoxes is flipped by a 'b' key press when devMode is
\* true and left unchanged by every other step
C16_DebugToggle ==
  [][inst = "live"
       => /\ DevMode(config') = DevMode(config)
          /\ ShowBoundingBoxes(config') =
               IF op' = "key" /\ lastKey' = "b" /\ DevMode(config)
               THEN Bool(Falsy(ShowBoundingBoxes(config)))
               ELSE ShowBoundingBoxes(config)]_vars

\* C16 witness: with devMode true, a 'b' press after an 'x' press has
\* turned the bounding boxes on
C16_Witness ==
  /\ op = "key"
  /\ lastKey = "b"
  /\ inputs = 2
  /\ DevMode(config)
  /\ ShowBoundingBoxes(config) = Bool(TRUE)

\* C17: whatever is constructed and toggled, the module's defaultConfig
\* keeps its original value; a construction yields the key-by-key merge of
\* the defaults and its argument; a 'b' press handled by one instance flips
\* that instance's showBoundingBoxes; and no step of one instance changes
\* the configuration another instance observes
C17_NoSharedMutableState ==
  /\ [](ViewOf(heap, DefaultRef) = defaultConfig)
  /\ [][/\ \A j \in Instances :
             who' # j => ViewOf(heap', cfgOf'[j]) = ViewOf(heap, cfgOf[j])
        /\ op' = "constructor"
             => ViewOf(heap', cfgOf'[who']) =
                  deepMerge(defaultConfig, ViewOf(heap, customArg'))
        /\ op' = "key"
             => ShowBoundingBoxes(ViewOf(heap', cfgOf'[who'])) =
                  Bool(Falsy(ShowBoundingBoxes(ViewOf(heap, cfgOf[who']))))]_vars

\* C17 witness: instance a, built from { debug: { devMode: true } }, has
\* toggled its bounding boxes on, next to instance b, built with null, whose
\* config is the defaultConfig object itself
C17_Witness ==
  /\ op = "key"
  /\ who = "a"
  /\ ShowBoundingBoxes(ViewOf(heap, cfgOf["a"])) = Bool(TRUE)
  /\ cfgOf["b"] = DefaultRef
  /\ ShowBoundingBoxes(ViewOf(heap, cfgOf["b"])) = Bool(FALSE)

C19_HostAlternation ==
  /\ [](appListeners => /\ isPaused <=> (Loops = 0)
                        /\ isPaused <=> paused
                        /\ Loops <= 1)
  /\ [][/\ op' = "pause" => (~isPaused /\ Loops = 1 /\ Loops' = 0 /\ isPaused')
        /\ op' = "resume" => (isPaused /\ Loops = 0 /\ Loops' = 1 /\ ~isPaused')
        /\ (op' = "key" /\ appListeners) => lastKey' # "p"]_vars

\* C19 witness: the third press of 'p' pauses again, after a pause and a
\* resume
C19_Witness ==
  /\ op = "pause"
  /\ lastKey = "p"
  /\ inputs = 3
  /\ isPaused
  /\ Loops = 0
  /\ ret = "this"

\* C20: #handleResize executes only on an instance whose setup has
\* completed and that is not destroyed, with its three walls, and does not
\* raise
C20_ResizeOnlyWhenSetUp ==
  Ran(trace, {"handleResize"})
    => (p5.setupDone /\ ~Destroyed /\ Len(walls) = 3 /\ err = "none")

====
